---- MODULE Spec2Model ----
(***************************************************************************)
(* A model of the AI competitor tracker: the fetcher, the extraction       *)
(* heuristics, the title deduplication and the statistics aggregation of   *)
(* src/scraper.py, src/google_scraper.py and src/utils.py.                 *)
(*                                                                         *)
(* Python strings are TLA+ strings (Len, SubSeq and \o act on them as the  *)
(* Python slices and concatenation do); Python lists are sequences; a dict *)
(* is a record, and a key the dict does not hold is a field the record     *)
(* does not have.  A Python None is the model value None.                  *)
(***************************************************************************)
EXTENDS Integers, Sequences, FiniteSets, TLC

VARIABLES
  dd_articles,   \* deduplication: the list of article dicts handed in
  dd_routine,    \* deduplication: which routine was applied
  dd_unique,     \* deduplication: what the routine returned
  dd_again,      \* deduplication: what it returned when applied to its own result
  dd_pc,         \* deduplication: "input", "once" or "twice"
  st_files,      \* statistics: what each *.json file of the data directory holds
  st_stats,      \* statistics: what calculate_statistics returned
  st_pc,         \* statistics: "files" or "done"
  ex_element,    \* extraction: the container (or, for a link, its parent)
  ex_routine,    \* extraction: which routine was called
  ex_base,       \* extraction: the competitor dict or the base URL it was called with
  ex_link,       \* extraction: the position of the link element in the parent, or 0
  ex_result,     \* extraction: the record returned, or NoneDict
  ex_pc,         \* extraction: "input" or "done"
  sc_prog,       \* scraping: "scrape_all" or "scrape_all_google_sources"
  sc_config_file, \* scraping: the configuration file the scraper is built from
  sc_config,     \* scraping: the configuration dict of the CompetitorScraper
  sc_page,       \* scraping: the containers of the document the last fetch received
  sc_i,          \* scraping: the position of the loop in the competitors list
  sc_pc,         \* scraping: where the run is
  sc_retry,      \* scraping: the retry counts of the fetch under way
  sc_attempts,   \* scraping: the HTTP attempts the last fetch has made
  sc_forcelist_only, \* scraping: every answer of the fetch was a forcelist status
  sc_result,     \* scraping: the snapshot the last scrape returned, or NoneDict
  sc_results,    \* scraping: the results list
  sc_files,      \* scraping: the files written to the data directory, in order
  sc_clock,      \* scraping: the seconds since the run began
  sc_error       \* scraping: the exception that left the run, or None

dedupeVars == <<dd_articles, dd_routine, dd_unique, dd_again, dd_pc>>
statsVars == <<st_files, st_stats, st_pc>>
extractVars == <<ex_element, ex_routine, ex_base, ex_link, ex_result, ex_pc>>
scrapeVars ==
  <<sc_prog, sc_config_file, sc_config, sc_page, sc_i, sc_pc, sc_retry, sc_attempts,
    sc_forcelist_only, sc_result, sc_results, sc_files, sc_clock, sc_error>>
vars == <<dedupeVars, statsVars, extractVars, scrapeVars>>

None == "None"

\* What a call gives: the value it returns, or the exception it raises.
Returned(v) == [raised |-> None, value |-> v]
Raised(e) == [raised |-> e, value |-> <<>>]

Min(a, b) == IF a <= b THEN a ELSE b

\* All sequences over S of length at most n.
SeqsUpTo(S, n) == UNION {[1..k -> S] : k \in 0..n}

(***************************************************************************)
(* Deduplication by title                                                  *)
(***************************************************************************)

HasKey(d, k) == k \in DOMAIN d

\* dict.get(key): the value, or None when the key is missing.
Get(d, k) == IF HasKey(d, k) THEN d[k] ELSE None

\* Python truthiness of an optional string.
Truthy(v) == v # None /\ v # ""

\* A plausible slip: the list is edited while it is walked, so the record after a
\* dropped one is never looked at.
RECURSIVE SkippingLoop(_, _, _, _, _)
SkippingLoop(articles, i, seen, unique, skip) ==
  IF i > Len(articles) THEN Returned(unique)
  ELSE IF ~HasKey(articles[i], "title") THEN Raised("KeyError")
  ELSE IF skip \/ articles[i].title \notin seen
    THEN SkippingLoop(articles, i + 1, seen \cup {articles[i].title},
                      Append(unique, articles[i]), FALSE)
    ELSE SkippingLoop(articles, i + 1, seen, unique, TRUE)

RemoveDuplicatesSkipping(articles) == SkippingLoop(articles, 1, {}, <<>>, FALSE)

\* GoogleAIScraper._remove_duplicates: the loop over articles, seen and unique
\* being its two locals.  article['title'] raises KeyError on a dict with no title.
RECURSIVE RemoveDuplicatesLoop(_, _, _, _)
RemoveDuplicatesLoop(articles, i, seen, unique) ==
  IF i > Len(articles) THEN Returned(unique)
  ELSE IF ~HasKey(articles[i], "title") THEN Raised("KeyError")
  ELSE IF articles[i].title \notin seen
    THEN RemoveDuplicatesLoop(articles, i + 1, seen \cup {articles[i].title},
                              Append(unique, articles[i]))
    ELSE RemoveDuplicatesLoop(articles, i + 1, seen, unique)

RemoveDuplicates(articles) == RemoveDuplicatesLoop(articles, 1, {}, <<>>)

\* The inline loop of scrape_google_ai_blog ("Remove duplicates based on title").
RECURSIVE InlineDedupeLoop(_, _, _, _)
InlineDedupeLoop(articles, i, seen_titles, unique_articles) ==
  IF i > Len(articles) THEN Returned(unique_articles)
  ELSE IF ~HasKey(articles[i], "title") THEN Raised("KeyError")
  ELSE IF articles[i].title \notin seen_titles
    THEN InlineDedupeLoop(articles, i + 1, seen_titles \cup {articles[i].title},
                          Append(unique_articles, articles[i]))
    ELSE InlineDedupeLoop(articles, i + 1, seen_titles, unique_articles)

InlineDedupe(articles) == InlineDedupeLoop(articles, 1, {}, <<>>)

\* A plausible slip: a later record with a seen title overwrites the kept one
\* (last occurrence wins).
RECURSIVE MergeKeepLastLoop(_, _, _, _)
MergeKeepLastLoop(articles, i, seen_titles, unique_articles) ==
  IF i > Len(articles) THEN unique_articles
  ELSE LET title == Get(articles[i], "title") IN
    IF ~Truthy(title)
      THEN MergeKeepLastLoop(articles, i + 1, seen_titles, unique_articles)
    ELSE IF title \notin seen_titles
      THEN MergeKeepLastLoop(articles, i + 1, seen_titles \cup {title},
                             Append(unique_articles, articles[i]))
      ELSE MergeKeepLastLoop(articles, i + 1, seen_titles,
             [k \in 1..Len(unique_articles) |->
                IF unique_articles[k].title = title THEN articles[i]
                ELSE unique_articles[k]])

\* The loop of merge_competitor_data: title = article.get('title'), kept only when
\* it is truthy and new.
RECURSIVE MergeDedupeLoop(_, _, _, _)
MergeDedupeLoop(articles, i, seen_titles, unique_articles) ==
  IF i > Len(articles) THEN unique_articles
  ELSE LET title == Get(articles[i], "title") IN
    IF Truthy(title) /\ title \notin seen_titles
      THEN MergeDedupeLoop(articles, i + 1, seen_titles \cup {title},
                           Append(unique_articles, articles[i]))
      ELSE MergeDedupeLoop(articles, i + 1, seen_titles, unique_articles)

\* The first loop of merge_competitor_data: the articles of every entry, in order
\* (data.get('articles', [])), the timestamps and the errors.
RECURSIVE MergeExtend(_, _, _)
MergeExtend(data_list, i, merged) ==
  IF i > Len(data_list) THEN merged
  ELSE LET data == data_list[i] IN
    MergeExtend(data_list, i + 1,
      [articles   |-> merged.articles \o (IF HasKey(data, "articles") THEN data.articles ELSE <<>>),
       timestamps |-> Append(merged.timestamps, Get(data, "timestamp")),
       errors     |-> IF HasKey(data, "error") THEN Append(merged.errors, data.error)
                      ELSE merged.errors])

MergeCompetitorData(data_list) ==
  LET merged == MergeExtend(data_list, 1, [articles |-> <<>>, timestamps |-> <<>>, errors |-> <<>>])
  IN [merged EXCEPT !.articles = MergeDedupeLoop(merged.articles, 1, {}, <<>>)]

\* merge_competitor_data as a deduplicator: one data entry holding the records.
MergeDedupe(articles) == Returned(MergeCompetitorData(<<[articles |-> articles]>>).articles)

Routines == {"_remove_duplicates", "inline", "merge_competitor_data"}

\* A routine applied to a list.
Dedupe(routine, articles) ==
  CASE routine = "_remove_duplicates"     -> RemoveDuplicates(articles)
    [] routine = "inline"                 -> InlineDedupe(articles)
    [] routine = "merge_competitor_data"  -> MergeDedupe(articles)

\* f(f(articles)): the second call is made on what the first returned; when the
\* first raised, the composition has raised already.
DedupeResult(routine, result) ==
  IF result.raised # None THEN result ELSE Dedupe(routine, result.value)

\* The records handed to the deduplicators: a title (possibly empty) and a link, or
\* a dict with no title at all.
MaxArticles == 3
DedupeTitles == {"", "A", "B"}
DedupeLinks == {"l1", "l2"}
DedupeRecords ==
  [title : DedupeTitles, link : DedupeLinks] \cup [link : DedupeLinks]


(***************************************************************************)
(* Statistics over the data directory (utils.calculate_statistics)         *)
(***************************************************************************)

\* The characters of an ISO-8601 timestamp in code point order, which is the order
\* Python compares strings by.
CharOrder == "-.0123456789:T"

CharRank(c) == CHOOSE k \in 1..Len(CharOrder) : SubSeq(CharOrder, k, k) = c

\* a < b on Python strings.
RECURSIVE StrLess(_, _)
StrLess(a, b) ==
  IF b = "" THEN FALSE
  ELSE IF a = "" THEN TRUE
  ELSE IF Head(a) = Head(b) THEN StrLess(Tail(a), Tail(b))
  ELSE CharRank(Head(a)) < CharRank(Head(b))

\* A None where a dict is expected.
NoneDict == [none |-> TRUE]
EmptyDict == [k \in {} |-> k]

\* Python truthiness of an optional dict.
TruthyDict(d) == d # NoneDict /\ d # EmptyDict

\* A file of the data directory: text that is no JSON, or the JSON value it holds.
NotJson == [notjson |-> TRUE]

\* load_json_file: the parsed value, or None on any exception.
LoadJsonFile(file) == IF file = NotJson THEN NoneDict ELSE file

EmptyStats ==
  [total_files |-> 0, total_articles |-> 0, competitors |-> EmptyDict,
   date_range |-> [start |-> None, end |-> None]]

\* A plausible slip: article_count is assigned, not added to.
AddSnapshotOverwrite(stats, data) ==
  LET competitor == IF HasKey(data, "competitor") THEN data.competitor ELSE "Unknown"
      articles == IF HasKey(data, "articles") THEN data.articles ELSE <<>>
      known == IF competitor \in DOMAIN stats.competitors THEN stats.competitors
               ELSE stats.competitors @@
                    (competitor :> [file_count |-> 0, article_count |-> 0, error_count |-> 0])
      entry == known[competitor]
  IN [stats EXCEPT
        !.competitors = [known EXCEPT ![competitor] =
            [file_count    |-> entry.file_count + 1,
             article_count |-> Len(articles),
             error_count   |-> entry.error_count + (IF HasKey(data, "error") THEN 1 ELSE 0)]],
        !.total_articles = @ + Len(articles)]

\* The counting part of the loop body of calculate_statistics, for one loaded file.
AddSnapshot(stats, data) ==
  LET competitor == IF HasKey(data, "competitor") THEN data.competitor ELSE "Unknown"
      articles == IF HasKey(data, "articles") THEN data.articles ELSE <<>>
      known == IF competitor \in DOMAIN stats.competitors THEN stats.competitors
               ELSE stats.competitors @@
                    (competitor :> [file_count |-> 0, article_count |-> 0, error_count |-> 0])
      entry == known[competitor]
  IN [stats EXCEPT
        !.competitors = [known EXCEPT ![competitor] =
            [file_count    |-> entry.file_count + 1,
             article_count |-> entry.article_count + Len(articles),
             error_count   |-> entry.error_count + (IF HasKey(data, "error") THEN 1 ELSE 0)]],
        !.total_articles = @ + Len(articles)]

\* A plausible slip: the range runs from the first timestamp read to the last one
\* read.
UpdateDateRangeInReadOrder(stats, data) ==
  LET timestamp == Get(data, "timestamp")
      range == stats.date_range
  IN IF ~Truthy(timestamp) THEN stats
     ELSE [stats EXCEPT !.date_range =
             [start |-> IF ~Truthy(range.start) THEN timestamp ELSE range.start,
              end |-> timestamp]]

\* The date range part of the loop body ("Update date range").
UpdateDateRange(stats, data) ==
  LET timestamp == Get(data, "timestamp")
      range == stats.date_range
  IN IF ~Truthy(timestamp) THEN stats
     ELSE LET start == IF ~Truthy(range.start) \/ StrLess(timestamp, range.start)
                       THEN timestamp ELSE range.start
              end == IF ~Truthy(range.end) \/ StrLess(range.end, timestamp)
                     THEN timestamp ELSE range.end
          IN [stats EXCEPT !.date_range = [start |-> start, end |-> end]]

\* for file in json_files: ...
RECURSIVE StatsLoop(_, _, _)
StatsLoop(json_files, i, stats) ==
  IF i > Len(json_files) THEN stats
  ELSE LET data == LoadJsonFile(json_files[i]) IN
    StatsLoop(json_files, i + 1,
      IF TruthyDict(data) THEN UpdateDateRange(AddSnapshot(stats, data), data)
      ELSE stats)

CalculateStatistics(json_files) ==
  StatsLoop(json_files, 1, [EmptyStats EXCEPT !.total_files = Len(json_files)])

\* The files the data directory may hold.  The articles of a snapshot are records
\* with a title; the first records of any two snapshots are the same articles.
MaxFiles == 3
Article(k) == [title |-> SubSeq("ABCDEF", k, k), link |-> None]
Articles(n) == [k \in 1..n |-> Article(k)]
FileSamples ==
  { [competitor |-> "OpenAI", url |-> "u1", timestamp |-> "2024-01-02T09:00:00",
     articles |-> Articles(4), article_count |-> 4],
    [competitor |-> "OpenAI", url |-> "u1", timestamp |-> "2024-01-01T09:00:00.5",
     articles |-> Articles(6), article_count |-> 6],
    [competitor |-> "OpenAI", url |-> "u1", timestamp |-> "2024-01-03T09:00:00",
     error |-> "503 Server Error", articles |-> <<>>],
    [competitor |-> "Google AI", source |-> "DeepMind", url |-> "u2",
     timestamp |-> "2024-01-01T09:00:00", articles |-> Articles(2), article_count |-> 2],
    [url |-> "u3", articles |-> Articles(1)],
    [competitor |-> "Google AI", timestamp |-> "2023-12-31T23:59:59"],
    EmptyDict,
    NotJson }


(***************************************************************************)
(* Strings and URLs                                                        *)
(***************************************************************************)

\* s.startswith(prefix)
StartsWith(s, prefix) ==
  Len(s) >= Len(prefix) /\ SubSeq(s, 1, Len(prefix)) = prefix

\* sub in s
Contains(s, sub) ==
  \E k \in 1..(Len(s) - Len(sub) + 1) : SubSeq(s, k, k + Len(sub) - 1) = sub

\* s[:n]
Prefix(s, n) == SubSeq(s, 1, Min(Len(s), n))

\* The least member of a set of positions, or the default when it is empty.
MinOf(S, default) ==
  IF S = {} THEN default ELSE CHOOSE k \in S : \A h \in S : k <= h

\* The greatest member of a set of positions, or the default when it is empty.
MaxOf(S, default) ==
  IF S = {} THEN default ELSE CHOOSE k \in S : \A h \in S : k >= h

\* The least position of character c in s at or after position from, or 0.
IndexOf(s, c, from) == MinOf({k \in from..Len(s) : SubSeq(s, k, k) = c}, 0)

\* The greatest position of character c in s, or 0.
LastIndexOf(s, c) == MaxOf({k \in 1..Len(s) : SubSeq(s, k, k) = c}, 0)

\* s.strip(): the blanks at both ends removed.
RECURSIVE Strip(_)
Strip(s) ==
  IF s = "" THEN s
  ELSE IF SubSeq(s, 1, 1) = " " THEN Strip(SubSeq(s, 2, Len(s)))
  ELSE IF SubSeq(s, Len(s), Len(s)) = " " THEN Strip(SubSeq(s, 1, Len(s) - 1))
  ELSE s

Letters == "abcdefghijklmnopqrstuvwxyzABCDEFGHIJKLMNOPQRSTUVWXYZ"
SchemeChars == Letters \o "0123456789+-."

\* The scheme of a URL whose first colon is at the given position (0: none).
SchemeBefore(url, colon) ==
  IF colon > 1
     /\ Contains(Letters, SubSeq(url, 1, 1))
     /\ \A k \in 1..(colon - 1) : Contains(SchemeChars, SubSeq(url, k, k))
  THEN SubSeq(url, 1, colon - 1) ELSE ""

\* urlparse(url).scheme: the text before the first colon, when it starts with a
\* letter and holds scheme characters only; "" otherwise.
UrlScheme(url) == SchemeBefore(url, IndexOf(url, ":", 1))

AfterScheme(url, scheme) ==
  IF scheme = "" THEN url ELSE SubSeq(url, Len(scheme) + 2, Len(url))

\* What follows the scheme and its colon.
UrlAfterScheme(url) == AfterScheme(url, UrlScheme(url))

\* The netloc of what follows the scheme: the text after "//" up to the next "/",
\* "?" or "#".
NetlocOf(rest) ==
  IF ~StartsWith(rest, "//") THEN ""
  ELSE SubSeq(rest, 3,
              MinOf({k \in 3..Len(rest) : SubSeq(rest, k, k) \in {"/", "?", "#"}},
                    Len(rest) + 1) - 1)

\* urlparse(url).netloc
UrlNetloc(url) == NetlocOf(UrlAfterScheme(url))

PathOf(rest) ==
  IF StartsWith(rest, "//") THEN SubSeq(rest, 3 + Len(NetlocOf(rest)), Len(rest))
  ELSE rest

\* urlparse(url).path of a URL without query and fragment.
UrlPath(url) == PathOf(UrlAfterScheme(url))

\* utils.validate_url: a scheme and a netloc.
ValidateUrl(url) == UrlScheme(url) # "" /\ UrlNetloc(url) # ""

\* The directory of a path whose last slash is at the given position (0: none).
DirUpTo(bpath, slash) == IF slash = 0 THEN "/" ELSE SubSeq(bpath, 1, slash)

UrlDir(bpath) == DirUpTo(bpath, LastIndexOf(bpath, "/"))

\* The reference joined to a base of the given root (scheme and netloc) and
\* directory.
JoinTo(base, url, root, dir) ==
  IF url = "" THEN base
  ELSE IF UrlScheme(url) # "" THEN url
  ELSE IF StartsWith(url, "//") THEN UrlScheme(base) \o ":" \o url
  ELSE IF StartsWith(url, "/") THEN root \o url
  ELSE IF StartsWith(url, "#") \/ StartsWith(url, "?") THEN base \o url
  ELSE root \o dir \o url

\* urllib.parse.urljoin(base, url) for a base without query and fragment and a
\* reference without dot segments.
UrlJoin(base, url) ==
  JoinTo(base, url, UrlScheme(base) \o "://" \o UrlNetloc(base), UrlDir(UrlPath(base)))

\* urljoin parses the reference with urlsplit, which raises ValueError ("Invalid
\* IPv6 URL") for a netloc with one of the brackets and not the other.
UrlJoinRaises(url) ==
  Contains(UrlNetloc(url), "[") # Contains(UrlNetloc(url), "]")

(***************************************************************************)
(* Documents: elements, selectors, text                                    *)
(***************************************************************************)

\* An element is a record of its tag, its class attribute ("" when it has none),
\* its href and datetime attributes (None when it has none), its own text and its
\* child elements.  NoElem is the None select_one gives when nothing matches.
NoElem == [tag |-> None]

Elem(tag, cls, href, datetime, text) ==
  [tag |-> tag, cls |-> cls, href |-> href, datetime |-> datetime, text |-> text,
   kids |-> <<>>]

\* One alternative of a selector list: a tag (or "*"), a class (".headline"), a
\* substring of the class attribute ([class*="x"]), an attribute that must be
\* there ([datetime]) and a substring of the href ([href*="x"]); None where the
\* alternative does not ask.
Alt(tag, class, classSub, attr, hrefSub) ==
  [tag |-> tag, class |-> class, classSub |-> classSub, attr |-> attr,
   hrefSub |-> hrefSub]

Tag(tag) == Alt(tag, None, None, None, None)
ClassSub(sub) == Alt("*", None, sub, None, None)

\* Whether the element matches the alternative.
Matches(e, alt) ==
  /\ alt.tag = "*" \/ e.tag = alt.tag
  /\ alt.class = None \/ Contains(" " \o e.cls \o " ", " " \o alt.class \o " ")
  /\ alt.classSub = None \/ Contains(e.cls, alt.classSub)
  /\ alt.attr = None \/ e[alt.attr] # None
  /\ alt.hrefSub = None \/ (e.href # None /\ Contains(e.href, alt.hrefSub))

\* The descendants of an element in document order, each with its parent.
RECURSIVE DescendantsFrom(_, _)
DescendantsFrom(e, k) ==
  IF k > Len(e.kids) THEN <<>>
  ELSE <<[elem |-> e.kids[k], parent |-> e]>> \o DescendantsFrom(e.kids[k], 1)
         \o DescendantsFrom(e, k + 1)

Descendants(e) == DescendantsFrom(e, 1)

\* element.select(selector): the descendants that match any alternative, in
\* document order.
RECURSIVE SelectFrom(_, _, _)
SelectFrom(ds, selector, k) ==
  IF k > Len(ds) THEN <<>>
  ELSE (IF \E a \in selector : Matches(ds[k].elem, a) THEN <<ds[k].elem>> ELSE <<>>)
         \o SelectFrom(ds, selector, k + 1)

Select(element, selector) == SelectFrom(Descendants(element), selector, 1)

\* element.select_one(selector)
SelectOne(element, selector) ==
  LET found == Select(element, selector)
  IN IF found = <<>> THEN NoElem ELSE found[1]

\* element.get_text(strip=True): every text of the element and its descendants,
\* stripped, joined without a separator.
RECURSIVE TextFrom(_, _)
TextFrom(e, k) ==
  IF k = 0 THEN Strip(e.text) \o TextFrom(e, 1)
  ELSE IF k > Len(e.kids) THEN ""
  ELSE TextFrom(e.kids[k], 0) \o TextFrom(e, k + 1)

GetText(e) == TextFrom(e, 0)

(***************************************************************************)
(* Extraction of one article record from one container                     *)
(***************************************************************************)

\* A selector of the configuration: the alternatives it parses to, or text that is
\* no CSS selector (select and select_one raise on it).
Selector(alts) == [syntax |-> "ok", alts |-> alts]
BadSelector == [syntax |-> "error", alts |-> {}]

\* competitor.get(key, default)
GetOr(d, k, default) == IF HasKey(d, k) THEN d[k] ELSE default

ExcerptCap == 500
TitleMinLen == 10

\* utils.truncate_text in the place of the slice: the cut text ends in "...".
ExcerptWithEllipsis(content) ==
  IF ~Truthy(content) THEN None
  ELSE IF Len(content) <= ExcerptCap THEN content
  ELSE Prefix(content, ExcerptCap - 3) \o "..."

\* content[:500] if content else None
Excerpt(content) ==
  IF Truthy(content) THEN Prefix(content, ExcerptCap) ELSE None

\* ' '.join(texts)
RECURSIVE JoinBlank(_)
JoinBlank(texts) ==
  IF texts = <<>> THEN ""
  ELSE IF Len(texts) = 1 THEN texts[1]
  ELSE texts[1] \o " " \o JoinBlank(Tail(texts))

\* if link and not link.startswith('http'): link = urljoin(base_url, link)
ResolveLink(href, base_url) ==
  IF Truthy(href) /\ ~StartsWith(href, "http") THEN UrlJoin(base_url, href) ELSE href

\* Whether resolving the link raises: urljoin is called and cannot parse it.
LinkRaises(href) ==
  Truthy(href) /\ ~StartsWith(href, "http") /\ UrlJoinRaises(href)

\* elem.get_text(strip=True) if elem else None
TextOrNone(elem) == IF elem = NoElem THEN None ELSE GetText(elem)

\* elem.get('href') if elem else None
HrefOrNone(elem) == IF elem = NoElem THEN None ELSE elem.href

\* date_elem.get('datetime', date_elem.get_text(strip=True)) if date_elem else None
DatetimeOrText(date_elem) ==
  IF date_elem = NoElem THEN None
  ELSE IF date_elem.datetime # None THEN date_elem.datetime
  ELSE GetText(date_elem)

\* ' '.join([elem.get_text(strip=True) for elem in content_elems[:3]])
FirstTexts(content_elems) ==
  JoinBlank([k \in 1..Min(Len(content_elems), 3) |-> GetText(content_elems[k])])

\* The content text _extract_article_data cuts its preview from: the texts of the
\* first three content elements, joined by blanks.
ArticleContent(article_element, competitor) ==
  FirstTexts(Select(article_element,
                    GetOr(competitor, "content_selector", Selector({Tag("p")})).alts))

\* The record _extract_article_data returns for what it found.
ArticleRecord(title, date, content, link) ==
  IF Truthy(title)
    THEN [title |-> title, date |-> date, content_preview |-> Excerpt(content),
          link |-> link]
    ELSE NoneDict

\* Whether the try block of _extract_article_data raises for the container: a
\* selector that is no CSS, or a link urljoin cannot parse.
ArticleDataRaises(article_element, competitor) ==
  \/ "error" \in {GetOr(competitor, "title_selector", Selector({Tag("h2"), Tag("h3")})).syntax,
                   GetOr(competitor, "date_selector", Selector({Tag("time")})).syntax,
                   GetOr(competitor, "content_selector", Selector({Tag("p")})).syntax}
  \/ LinkRaises(HrefOrNone(SelectOne(article_element, {Tag("a")})))

\* CompetitorScraper._extract_article_data.  An exception raised in the try block
\* is caught and the routine returns None.
ExtractArticleData(article_element, competitor) ==
  IF ArticleDataRaises(article_element, competitor) THEN NoneDict
  ELSE ArticleRecord(
         TextOrNone(SelectOne(article_element,
           GetOr(competitor, "title_selector", Selector({Tag("h2"), Tag("h3")})).alts)),
         DatetimeOrText(SelectOne(article_element,
           GetOr(competitor, "date_selector", Selector({Tag("time")})).alts)),
         ArticleContent(article_element, competitor),
         ResolveLink(HrefOrNone(SelectOne(article_element, {Tag("a")})), competitor.url))

\* The title loop of _extract_google_article: the selectors in order, title being
\* the text of the last element found, the loop left at the first text longer than
\* ten characters.
GoogleTitleSelectors ==
  << {Tag("h2")}, {Tag("h3")}, {Tag("h4")}, {Alt("*", "headline", None, None, None)},
     {ClassSub("title")}, {Tag("a")} >>

RECURSIVE GoogleTitleLoop(_, _, _)
RECURSIVE GoogleTitleFound(_, _, _, _)
RECURSIVE GoogleTitleText(_, _, _)

\* title = title_elem.get_text(strip=True); if title and len(title) > 10: break
GoogleTitleText(element, k, title) ==
  IF Truthy(title) /\ Len(title) > TitleMinLen THEN title
  ELSE GoogleTitleLoop(element, k + 1, title)

\* if title_elem:
GoogleTitleFound(element, k, title, title_elem) ==
  IF title_elem = NoElem THEN GoogleTitleLoop(element, k + 1, title)
  ELSE GoogleTitleText(element, k, GetText(title_elem))

GoogleTitleLoop(element, k, title) ==
  IF k > Len(GoogleTitleSelectors) THEN title
  ELSE GoogleTitleFound(element, k, title, SelectOne(element, GoogleTitleSelectors[k]))

\* The date loop: the first selector that finds an element decides.
GoogleDateSelectors ==
  << {Tag("time")}, {Alt("*", None, None, "datetime", None)}, {ClassSub("date")},
     {ClassSub("time")} >>

RECURSIVE GoogleDateLoop(_, _)
RECURSIVE GoogleDateFound(_, _, _)

\* date = date_elem.get('datetime') or date_elem.get_text(strip=True); break
GoogleDateFound(element, k, date_elem) ==
  IF date_elem = NoElem THEN GoogleDateLoop(element, k + 1)
  ELSE IF Truthy(date_elem.datetime) THEN date_elem.datetime
  ELSE GetText(date_elem)

GoogleDateLoop(element, k) ==
  IF k > Len(GoogleDateSelectors) THEN None
  ELSE GoogleDateFound(element, k, SelectOne(element, GoogleDateSelectors[k]))

\* The content loop: content is the text of the last element found, the loop left
\* at the first text that is not empty.
GoogleContentSelectors ==
  << {Tag("p")}, {ClassSub("excerpt")}, {ClassSub("summary")}, {ClassSub("description")} >>

RECURSIVE GoogleContentLoop(_, _, _)
RECURSIVE GoogleContentFound(_, _, _, _)
RECURSIVE GoogleContentText(_, _, _)

\* content = content_elem.get_text(strip=True); if content: break
GoogleContentText(element, k, content) ==
  IF Truthy(content) THEN content ELSE GoogleContentLoop(element, k + 1, content)

GoogleContentFound(element, k, content, content_elem) ==
  IF content_elem = NoElem THEN GoogleContentLoop(element, k + 1, content)
  ELSE GoogleContentText(element, k, GetText(content_elem))

GoogleContentLoop(element, k, content) ==
  IF k > Len(GoogleContentSelectors) THEN content
  ELSE GoogleContentFound(element, k, content, SelectOne(element, GoogleContentSelectors[k]))

GoogleContent(element) == GoogleContentLoop(element, 1, None)

\* link_elem.get('href') resolved, if link_elem
GoogleLink(link_elem, base_url) ==
  IF link_elem = NoElem THEN None ELSE ResolveLink(link_elem.href, base_url)

\* The record _extract_google_article returns for what it found.
GoogleRecord(title, link, date, content, category) ==
  IF ~Truthy(title) THEN NoneDict
  ELSE [title |-> title, link |-> link, date |-> date,
        content_preview |-> Excerpt(content), category |-> category,
        source |-> "Google AI Blog"]

\* Whether the try block of _extract_google_article or _extract_deepmind_article
\* raises for the element: the href of its first link cannot be parsed.
GoogleArticleRaises(element) ==
  LinkRaises(HrefOrNone(SelectOne(element, {Alt("a", None, None, "href", None)})))

\* GoogleAIScraper._extract_google_article
ExtractGoogleArticle(element, base_url) ==
  IF GoogleArticleRaises(element) THEN NoneDict
  ELSE
  GoogleRecord(GoogleTitleLoop(element, 1, None),
               GoogleLink(SelectOne(element, {Alt("a", None, None, "href", None)}), base_url),
               GoogleDateLoop(element, 1),
               GoogleContent(element),
               TextOrNone(SelectOne(element, {ClassSub("category"), ClassSub("tag")})))

DeepmindContent(element) ==
  TextOrNone(SelectOne(element, {Tag("p"), ClassSub("summary")}))

\* The record _extract_deepmind_article and _extract_from_link return for what
\* they found.
TitledRecord(title, link, date, content, source) ==
  IF ~Truthy(title) \/ Len(title) < TitleMinLen THEN NoneDict
  ELSE [title |-> title, link |-> link, date |-> date,
        content_preview |-> Excerpt(content), source |-> source]

\* GoogleAIScraper._extract_deepmind_article
ExtractDeepmindArticle(element, base_url) ==
  IF GoogleArticleRaises(element) THEN NoneDict
  ELSE
  TitledRecord(
    TextOrNone(SelectOne(element, {Tag("h2"), Tag("h3"), Alt("a", None, None, None, "/blog/")})),
    ResolveLink(HrefOrNone(SelectOne(element, {Alt("a", None, None, "href", None)})), base_url),
    TextOrNone(SelectOne(element, {Tag("time"), ClassSub("date")})),
    DeepmindContent(element),
    "DeepMind")

LinkContent(parent) ==
  IF parent = NoElem THEN None ELSE TextOrNone(SelectOne(parent, {Tag("p")}))

LinkDate(parent) ==
  IF parent = NoElem THEN None
  ELSE TextOrNone(SelectOne(parent, {Tag("time"), ClassSub("date")}))

\* GoogleAIScraper._extract_from_link: the link element and its parent.
ExtractFromLink(link_element, parent, base_url) ==
  IF LinkRaises(link_element.href) THEN NoneDict
  ELSE
  TitledRecord(GetText(link_element), ResolveLink(link_element.href, base_url),
               LinkDate(parent), LinkContent(parent), "Google AI")

\* The containers handed to the extraction routines: an article element with up to
\* MaxElems of these child elements, in any order.
MaxElems == 2
Text10 == "0123456789"
Text100 == Text10 \o Text10 \o Text10 \o Text10 \o Text10 \o Text10 \o Text10 \o Text10 \o Text10 \o Text10
Text600 == "Start " \o Text100 \o Text100 \o Text100 \o Text100 \o Text100 \o Text10 \o Text10
             \o Text10 \o Text10 \o Text10 \o Text10 \o Text10 \o Text10 \o Text10 \o " end"
ElemSamples ==
  { Elem("h2", "", None, None, "Home"),
    Elem("h2", "", None, None, "AI Breakthrough in Reasoning"),
    Elem("h3", "", None, None, " Ten chars! "),
    Elem("div", "post-title", None, None, "Gemini 2 is here"),
    Elem("a", "", "/blog/x", None, "Read more"),
    Elem("a", "", "https://example.com/a", None, "AI Breakthrough in Reasoning"),
    Elem("a", "", "http-archive/2024.html", None, "Archive of the year 2024"),
    Elem("a", "", "", None, "About"),
    Elem("a", "", None, None, "Exactly 10"),
    Elem("a", "", "//[broken", None, "Scaling laws revisited"),
    Elem("p", "", None, None, Text600),
    Elem("p", "summary", None, None, "A short summary."),
    Elem("time", "", None, "2024-01-01", "Jan 1, 2024"),
    Elem("span", "date", None, None, "Jan 2, 2024") }

Container(kids) ==
  [tag |-> "article", cls |-> "", href |-> None, datetime |-> None, text |-> "",
   kids |-> kids]

\* The competitor entries of the configuration: the built-in default entry, an
\* entry that leaves the selectors to their defaults, and one whose title selector
\* is no CSS.
DefaultCompetitor ==
  [name |-> "OpenAI", url |-> "https://openai.com/blog",
   selector |-> Selector({Tag("article")}),
   title_selector |-> Selector({Tag("h2"), Tag("h3")}),
   date_selector |-> Selector({Tag("time")}),
   content_selector |-> Selector({Tag("p")})]
CompetitorSamples ==
  { DefaultCompetitor,
    [name |-> "Example Labs", url |-> "https://example.com"],
    [name |-> "Example Labs", url |-> "https://example.com", title_selector |-> BadSelector] }

GoogleAIBlogUrl == "https://blog.google/technology/ai/"
DeepmindUrl == "https://deepmind.google/discover/blog/"

(***************************************************************************)
(* Fetching: the session of CompetitorScraper and its retry policy         *)
(***************************************************************************)

RetryTotal == 3
RetryRead == 3
RetryConnect == 3

\* Retry(total=3, read=3, connect=3, ...): the counts a fetch starts with.
NewRetry == [total |-> RetryTotal, read |-> RetryRead, connect |-> RetryConnect]

StatusForcelist == {500, 502, 504}

\* The statuses the retry policy retries when the response carries a Retry-After
\* header (respect_retry_after_header is left at its default).
RetryAfterStatusCodes == {413, 429, 503}

\* What one HTTP attempt ends in: a response, a failure to connect, a timeout
\* while reading.
Response(status, retry_after) ==
  [kind |-> "response", status |-> status, retry_after |-> retry_after]
ConnectError == [kind |-> "connect_error", status |-> 0, retry_after |-> FALSE]
ReadTimeout == [kind |-> "read_timeout", status |-> 0, retry_after |-> FALSE]

Answers ==
  {Response(s, FALSE) : s \in {200, 404, 500, 502, 503, 504}}
    \cup {Response(503, TRUE), ConnectError, ReadTimeout}

\* Retry.is_retry: whether the policy asks for another attempt after a response.
IsRetry(retry, answer) ==
  \/ answer.status \in StatusForcelist
  \/ /\ retry.total # 0
     /\ answer.retry_after
     /\ answer.status \in RetryAfterStatusCodes

\* Retry.increment: the counts after an attempt that is to be retried.
Increment(retry, answer) ==
  [total |-> retry.total - 1,
   read |-> IF answer.kind = "read_timeout" THEN retry.read - 1 ELSE retry.read,
   connect |-> IF answer.kind = "connect_error" THEN retry.connect - 1 ELSE retry.connect]

\* A policy that gives up when a count reaches zero.
IsExhaustedAtZero(retry) ==
  retry.total <= 0 \/ retry.read <= 0 \/ retry.connect <= 0

\* Retry.is_exhausted: a count has gone below zero.
IsExhausted(retry) ==
  retry.total < 0 \/ retry.read < 0 \/ retry.connect < 0

\* What session.get and raise_for_status make of an attempt's answer: "retry"
\* (another attempt follows), "ok" (the response is handed on), or the
\* requests.RequestException raised.
AttemptOutcome(retry, answer) ==
  IF answer.kind = "response" /\ ~IsRetry(retry, answer)
    THEN (IF answer.status >= 400 THEN "HTTPError" ELSE "ok")
  ELSE IF ~IsExhausted(Increment(retry, answer)) THEN "retry"
  ELSE IF answer.kind = "response" THEN "RetryError"
  ELSE "ConnectionError"

(***************************************************************************)
(* Snapshots                                                               *)
(***************************************************************************)

Digit(d) == SubSeq("0123456789", d + 1, d + 1)
TwoDigits(n) == Digit((n \div 10) % 10) \o Digit(n % 10)

\* datetime.now().isoformat() and datetime.now().strftime('%Y%m%d_%H%M%S'), the
\* clock counting the seconds since the run began.
IsoFormat(clock) == "2024-01-01T00:00:" \o TwoDigits(clock)
FileStamp(clock) == "20240101_0000" \o TwoDigits(clock)

\* name.replace(' ', '_')
RECURSIVE ReplaceBlanks(_)
ReplaceBlanks(s) ==
  IF s = "" THEN ""
  ELSE (IF Head(s) = Head(" ") THEN "_" ELSE SubSeq(s, 1, 1)) \o ReplaceBlanks(Tail(s))

\* The document a page parses to: its top-level elements under one root.
Document(page) ==
  [tag |-> "[document]", cls |-> "", href |-> None, datetime |-> None, text |-> "",
   kids |-> page]

ArticleLimit == 10

\* if article_data: articles.append(article_data)
IfRecord(article_data) ==
  IF article_data # NoneDict THEN <<article_data>> ELSE <<>>

\* An extraction loop that a container without a record ends.
RECURSIVE WebsiteArticlesUntilNone(_, _, _)
WebsiteArticlesUntilNone(article_elements, k, competitor) ==
  IF k > Min(Len(article_elements), ArticleLimit) THEN <<>>
  ELSE IF ExtractArticleData(article_elements[k], competitor) = NoneDict THEN <<>>
  ELSE <<ExtractArticleData(article_elements[k], competitor)>>
         \o WebsiteArticlesUntilNone(article_elements, k + 1, competitor)

\* The extraction loop of scrape_website over the first ten containers.
RECURSIVE WebsiteArticles(_, _, _)
WebsiteArticles(article_elements, k, competitor) ==
  IF k > Min(Len(article_elements), ArticleLimit) THEN <<>>
  ELSE IfRecord(ExtractArticleData(article_elements[k], competitor))
         \o WebsiteArticles(article_elements, k + 1, competitor)

\* The snapshot scrape_website returns for the records it extracted.
Snapshot(competitor, clock, articles) ==
  [competitor |-> Get(competitor, "name"), url |-> Get(competitor, "url"),
   timestamp |-> IsoFormat(clock), articles |-> articles,
   article_count |-> Len(articles)]

\* The snapshot scrape_website returns when a fetch raised a RequestException.
ErrorSnapshot(competitor, clock, error) ==
  [competitor |-> Get(competitor, "name"), url |-> Get(competitor, "url"),
   timestamp |-> IsoFormat(clock), error |-> error, articles |-> <<>>]

\* scrape_website from the parsed response on: the snapshot returned, or the
\* exception of a selector that is no CSS, which no except clause catches.
ParseAndExtract(competitor, page, clock) ==
  IF GetOr(competitor, "selector", Selector({Tag("article")})).syntax = "error"
    THEN Raised("SelectorSyntaxError")
  ELSE Returned(Snapshot(competitor, clock,
         WebsiteArticles(Select(Document(page),
                                GetOr(competitor, "selector", Selector({Tag("article")})).alts),
                         1, competitor)))

RateLimitDelay == 2

\* _save_result: the file written, or the exception raised.  A snapshot
\* without a competitor name has no replace method to call; open may fail.
SaveResult(result, clock, disk_ok) ==
  IF result.competitor = None THEN Raised("AttributeError")
  ELSE IF ~disk_ok THEN Raised("OSError")
  ELSE Returned([path |-> ReplaceBlanks(result.competitor) \o "_" \o FileStamp(clock)
                            \o ".json",
                 data |-> result,
                 time |-> clock])

(***************************************************************************)
(* The Google scrapers: collecting the records of a page                   *)
(***************************************************************************)

\* article in articles
InSeq(x, seq) == \E k \in 1..Len(seq) : seq[k] = x

GoogleArticleSelectors ==
  << {Tag("article")}, {Alt("div", "glue-grid__col", None, None, None)},
     {Alt("div", None, "article", None, None)}, {Alt("div", None, "post", None, None)},
     {Alt("div", "uni-article-card", None, None, None)},
     {Alt("a", None, None, None, "/technology/ai/")} >>

GoogleElementLimit == 15
FewArticles == 5
LinkLimit == 10
SnapshotLimit == 10

\* if article_data and article_data not in articles: articles.append(article_data)
AppendNew(articles, article_data) ==
  IF article_data # NoneDict /\ ~InSeq(article_data, articles)
    THEN Append(articles, article_data) ELSE articles

\* The inner loop of scrape_google_ai_blog: a record joins the list unless an
\* equal record is in it.
RECURSIVE GoogleElementLoop(_, _, _, _)
GoogleElementLoop(elements, k, url, articles) ==
  IF k > Min(Len(elements), GoogleElementLimit) THEN articles
  ELSE GoogleElementLoop(elements, k + 1, url,
         AppendNew(articles, ExtractGoogleArticle(elements[k], url)))

\* The loop over the article selectors.
RECURSIVE GoogleSelectorLoop(_, _, _, _)
GoogleSelectorLoop(soup, s, url, articles) ==
  IF s > Len(GoogleArticleSelectors) THEN articles
  ELSE GoogleSelectorLoop(soup, s + 1, url,
         GoogleElementLoop(Select(soup, GoogleArticleSelectors[s]), 1, url, articles))

\* soup.find_all('a', href=re.compile(r'/technology/ai/.*')): the links, each with
\* its parent.
RECURSIVE FindAllLinksFrom(_, _)
FindAllLinksFrom(ds, k) ==
  IF k > Len(ds) THEN <<>>
  ELSE (IF /\ ds[k].elem.tag = "a"
           /\ ds[k].elem.href # None
           /\ Contains(ds[k].elem.href, "/technology/ai/")
          THEN <<ds[k]>> ELSE <<>>) \o FindAllLinksFrom(ds, k + 1)

FindAllLinks(soup) == FindAllLinksFrom(Descendants(soup), 1)

\* The loop over the first ten links.
RECURSIVE GoogleLinkLoop(_, _, _, _)
GoogleLinkLoop(links, k, url, articles) ==
  IF k > Min(Len(links), LinkLimit) THEN articles
  ELSE GoogleLinkLoop(links, k + 1, url,
         AppendNew(articles, ExtractFromLink(links[k].elem, links[k].parent, url)))

\* The snapshot the Google scrapers return when anything raised.
GoogleErrorSnapshot(source, url, clock, error) ==
  [competitor |-> "Google AI", source |-> source, url |-> url,
   timestamp |-> IsoFormat(clock), error |-> error, articles |-> <<>>]

GoogleSnapshot(source, url, clock, unique_articles) ==
  IF unique_articles.raised # None
    THEN GoogleErrorSnapshot(source, url, clock, unique_articles.raised)
  ELSE [competitor |-> "Google AI", source |-> source, url |-> url,
        timestamp |-> IsoFormat(clock),
        articles |-> Prefix(unique_articles.value, SnapshotLimit),
        article_count |-> Len(unique_articles.value)]

\* The records of the page before deduplication, in scrape_google_ai_blog.
GoogleLinkPass(soup, articles) ==
  IF Len(articles) < FewArticles
    THEN GoogleLinkLoop(FindAllLinks(soup), 1, GoogleAIBlogUrl, articles)
    ELSE articles

GoogleArticles(page) ==
  GoogleLinkPass(Document(page), GoogleSelectorLoop(Document(page), 1, GoogleAIBlogUrl, <<>>))

\* scrape_google_ai_blog from the parsed response on.
GoogleAIBlogSnapshot(page, clock) ==
  GoogleSnapshot("Google AI Blog", GoogleAIBlogUrl, clock, InlineDedupe(GoogleArticles(page)))

DeepmindArticleSelectors ==
  << {Tag("article")}, {Alt("div", None, "post", None, None)},
     {Alt("div", None, "blog", None, None)}, {Alt("a", None, None, None, "/blog/")} >>

DeepmindElementLimit == 10

RECURSIVE DeepmindElementLoop(_, _)
DeepmindElementLoop(elements, k) ==
  IF k > Min(Len(elements), DeepmindElementLimit) THEN <<>>
  ELSE IfRecord(ExtractDeepmindArticle(elements[k], DeepmindUrl))
         \o DeepmindElementLoop(elements, k + 1)

RECURSIVE DeepmindSelectorLoop(_, _)
DeepmindSelectorLoop(soup, s) ==
  IF s > Len(DeepmindArticleSelectors) THEN <<>>
  ELSE DeepmindElementLoop(Select(soup, DeepmindArticleSelectors[s]), 1)
         \o DeepmindSelectorLoop(soup, s + 1)

\* The records of the page before deduplication, in scrape_deepmind.
DeepmindArticles(page) == DeepmindSelectorLoop(Document(page), 1)

\* scrape_deepmind from the parsed response on.
DeepmindSnapshot(page, clock) ==
  GoogleSnapshot("DeepMind", DeepmindUrl, clock, RemoveDuplicates(DeepmindArticles(page)))

\* The session of GoogleAIScraper mounts no retry policy: one attempt, and
\* raise_for_status on its answer.
SingleAttemptOutcome(answer) ==
  IF answer.kind # "response" THEN "ConnectionError"
  ELSE IF answer.status >= 400 THEN "HTTPError"
  ELSE "ok"

\* The exceptions one attempt can end in.
SingleAttemptErrors == {SingleAttemptOutcome(answer) : answer \in Answers} \ {"ok"}

(***************************************************************************)
(* Configurations and pages                                                *)
(***************************************************************************)

MaxCompetitors == 2
MaxContainers == 2

Div(cls, kids) ==
  [tag |-> "div", cls |-> cls, href |-> None, datetime |-> None, text |-> "",
   kids |-> kids]

\* The top-level elements of the pages: two article containers with the same
\* title and different links, one with another title, a post card, and a bare
\* link into the Google AI section.
ArticleA1 ==
  Container(<< Elem("h2", "", None, None, "AI Breakthrough in Reasoning"),
               Elem("a", "", "/blog/x", None, "Read more") >>)
ArticleA2 ==
  Container(<< Elem("h2", "", None, None, "AI Breakthrough in Reasoning"),
               Elem("a", "", "https://example.com/a", None, "AI Breakthrough in Reasoning") >>)
ArticleB ==
  Container(<< Elem("h3", "", None, None, " Ten chars! "),
               Elem("p", "summary", None, None, "A short summary.") >>)
PostCard ==
  Div("post-card", << Elem("a", "", "/technology/ai/gemini-2/", None, "Gemini 2 is here today"),
                      Elem("span", "date", None, None, "Jan 2, 2024") >>)
TopLink == Elem("a", "", "/technology/ai/agents/", None, "AI Breakthrough in Reasoning")
ArticleBroken ==
  Container(<< Elem("h2", "", None, None, "Scaling laws revisited"),
               Elem("a", "", "//[broken", None, "Scaling laws revisited") >>)

PageContainers == {ArticleA1, ArticleA2, ArticleB, PostCard, TopLink, ArticleBroken}

\* The pages the Google sites serve.
Pages == SeqsUpTo(PageContainers, MaxContainers)

\* The pages the configured competitors serve.
SitePages == {<<>>, <<ArticleB>>, <<ArticleA1, ArticleA2>>, <<ArticleBroken, ArticleB>>}

\* The competitor entries of scrape_all: the built-in default entry, one that
\* leaves the selectors to their defaults, one without a name, and one whose
\* container selector is no CSS.
ScrapeCompetitors ==
  { DefaultCompetitor,
    [name |-> "Meta AI", url |-> "https://ai.meta.com/blog/"],
    [url |-> "https://example.com"],
    [name |-> "Example Labs", url |-> "https://example.com", selector |-> BadSelector] }

\* The configurations a file may hold: the competitors, with the default wait
\* between competitors or with none.
Configs ==
  {[competitors |-> cs] : cs \in SeqsUpTo(ScrapeCompetitors, MaxCompetitors)}
    \cup {[competitors |-> cs, rate_limit_delay |-> 0] :
            cs \in SeqsUpTo(ScrapeCompetitors, MaxCompetitors)}

\* No file at the configuration path.
MissingFile == [missing |-> TRUE]

\* The configuration file: absent, not JSON, or a configuration.
ConfigFiles == {MissingFile, NotJson} \cup Configs

\* _get_default_config
DefaultConfig ==
  [competitors |-> <<DefaultCompetitor>>,
   user_agent |-> "AI-Competitor-Tracker/1.0",
   request_timeout |-> 30,
   rate_limit_delay |-> 2]

\* The loading of CompetitorTrackerScheduler._load_config, which gives the empty
\* dict for an absent file: what CompetitorScraper._load_config must not do.
LoadConfigEmptyOnMissing(file) ==
  IF file = MissingFile THEN Returned(EmptyDict)
  ELSE IF file = NotJson THEN Raised("JSONDecodeError")
  ELSE Returned(file)

\* _load_config: the configuration, or the exception json.load raises.
LoadConfig(file) ==
  IF file = MissingFile THEN Returned(DefaultConfig)
  ELSE IF file = NotJson THEN Raised("JSONDecodeError")
  ELSE Returned(file)

(***************************************************************************)
(* The state of each part while another part runs                          *)
(***************************************************************************)

\* The deduplication variables while another part of the program runs.
DedupeIdle ==
  /\ dd_articles = <<>>
  /\ dd_routine = None
  /\ dd_unique = Returned(<<>>)
  /\ dd_again = Returned(<<>>)
  /\ dd_pc = "idle"

StatsIdle ==
  /\ st_files = <<>>
  /\ st_stats = EmptyStats
  /\ st_pc = "idle"

ExtractIdle ==
  /\ ex_element = NoElem
  /\ ex_routine = None
  /\ ex_base = None
  /\ ex_link = 0
  /\ ex_result = NoneDict
  /\ ex_pc = "idle"

ScrapeIdle ==
  /\ sc_prog = None
  /\ sc_config_file = NoneDict
  /\ sc_config = EmptyDict
  /\ sc_page = <<>>
  /\ sc_i = 0
  /\ sc_pc = "idle"
  /\ sc_retry = NewRetry
  /\ sc_attempts = 0
  /\ sc_forcelist_only = TRUE
  /\ sc_result = NoneDict
  /\ sc_results = <<>>
  /\ sc_files = <<>>
  /\ sc_clock = 0
  /\ sc_error = None

(***************************************************************************)
(* Deduplication: the routines applied once and twice                      *)
(***************************************************************************)

DedupeInit ==
  /\ StatsIdle
  /\ ExtractIdle
  /\ ScrapeIdle
  /\ dd_articles \in SeqsUpTo(DedupeRecords, MaxArticles)
  /\ dd_routine = None
  /\ dd_unique = Returned(<<>>)
  /\ dd_again = Returned(<<>>)
  /\ dd_pc = "input"

ApplyDedupe ==
  /\ dd_pc = "input"
  /\ \E r \in Routines :
       /\ dd_routine' = r
       /\ dd_unique' = Dedupe(r, dd_articles)
  /\ dd_pc' = "once"
  /\ UNCHANGED <<dd_articles, dd_again, statsVars, extractVars, scrapeVars>>

ApplyDedupeAgain ==
  /\ dd_pc = "once"
  /\ dd_again' = DedupeResult(dd_routine, dd_unique)
  /\ dd_pc' = "twice"
  /\ UNCHANGED <<dd_articles, dd_routine, dd_unique, statsVars, extractVars, scrapeVars>>

DedupeNext == ApplyDedupe \/ ApplyDedupeAgain

SpecDedupe == DedupeInit /\ [][DedupeNext]_vars

\* The records of R at the positions in I, in R's order.
RECURSIVE Pick(_, _, _)
Pick(R, I, i) ==
  IF i > Len(R) THEN <<>>
  ELSE (IF i \in I THEN <<R[i]>> ELSE <<>>) \o Pick(R, I, i + 1)

AllTitled(R) == \A i \in 1..Len(R) : HasKey(R[i], "title")

\* The positions of R whose title did not occur at an earlier position.
FirstPositions(R) ==
  {i \in 1..Len(R) : \A j \in 1..(i - 1) : R[j].title # R[i].title}

FirstOccurrences(R) == Pick(R, FirstPositions(R), 1)

\* The positions of R that hold a non-empty title.
TitledPositions(R) == {i \in 1..Len(R) : Truthy(Get(R[i], "title"))}

\* C1: deduplication is idempotent, for each of the three routines: applied to
\* its own result, a routine gives that result again.
C1_DedupeIdempotent ==
  dd_pc = "twice" => dd_again = dd_unique

\* C1 witness: a routine has been applied twice to a list from which the first
\* application dropped a record.
C1_Witness ==
  /\ dd_pc = "twice"
  /\ dd_unique.raised = None
  /\ Len(dd_unique.value) < Len(dd_articles)
  /\ Len(dd_unique.value) >= 2

C19_ImplementationsAgree ==
  dd_pc = "once" => \A r \in Routines : Dedupe(r, dd_articles) = dd_unique

(***************************************************************************)
(* Statistics: calculate_statistics run over a data directory              *)
(***************************************************************************)

StatsInit ==
  /\ DedupeIdle
  /\ ScrapeIdle
  /\ ExtractIdle
  /\ st_files \in SeqsUpTo(FileSamples, MaxFiles)
  /\ st_stats = EmptyStats
  /\ st_pc = "files"

RunCalculateStatistics ==
  /\ st_pc = "files"
  /\ st_stats' = CalculateStatistics(st_files)
  /\ st_pc' = "done"
  /\ UNCHANGED <<st_files, dedupeVars, extractVars, scrapeVars>>

StatsNext == RunCalculateStatistics

SpecStats == StatsInit /\ [][StatsNext]_vars

\* The positions of the files that hold a snapshot (a JSON object that is not empty).
SnapshotPositions(files) == {i \in 1..Len(files) : TruthyDict(LoadJsonFile(files[i]))}

CompetitorOf(data) == IF HasKey(data, "competitor") THEN data.competitor ELSE "Unknown"

SnapshotsOf(files, c) == {i \in SnapshotPositions(files) : CompetitorOf(files[i]) = c}

ArticlesLen(data) == IF HasKey(data, "articles") THEN Len(data.articles) ELSE 0

RECURSIVE SumOver(_, _, _)
SumOver(files, I, i) ==
  IF i > Len(files) THEN 0
  ELSE (IF i \in I THEN ArticlesLen(files[i]) ELSE 0) + SumOver(files, I, i + 1)

\* C4: the per-competitor counts are exact: file_count is the number of snapshots
\* of the competitor, article_count the sum of the lengths of their articles arrays
\* (nothing deduplicated across snapshots), error_count the number of them with an
\* error field, and total_articles the sum of article_count over the competitors.
C4_CountsExact ==
  st_pc = "done" =>
    /\ DOMAIN st_stats.competitors =
         {CompetitorOf(st_files[i]) : i \in SnapshotPositions(st_files)}
    /\ \A c \in DOMAIN st_stats.competitors :
         /\ st_stats.competitors[c].file_count = Cardinality(SnapshotsOf(st_files, c))
         /\ st_stats.competitors[c].article_count =
              SumOver(st_files, SnapshotsOf(st_files, c), 1)
         /\ st_stats.competitors[c].error_count =
              Cardinality({i \in SnapshotsOf(st_files, c) : HasKey(st_files[i], "error")})
    /\ st_stats.total_articles = SumOver(st_files, SnapshotPositions(st_files), 1)

\* C4 witness: two error-free "OpenAI" snapshots with 4 and 6 articles (the first
\* four articles being the same in both) have been aggregated to {2, 10, 0}.
C4_Witness ==
  /\ st_pc = "done"
  /\ Len(st_files) = 2
  /\ "OpenAI" \in DOMAIN st_stats.competitors
  /\ {Len(st_files[i].articles) : i \in SnapshotsOf(st_files, "OpenAI")} = {4, 6}
  /\ st_stats.competitors["OpenAI"] =
       [file_count |-> 2, article_count |-> 10, error_count |-> 0]

\* The timestamps of the snapshots among the files.
Timestamps(files) ==
  {files[i].timestamp :
     i \in {j \in SnapshotPositions(files) : Truthy(Get(files[j], "timestamp"))}}

\* C12: date_range.start is the smallest and date_range.end the largest timestamp
\* string among the snapshots, whatever the order the files are read in; when no
\* snapshot has a timestamp both are None.
C12_DateRangeMinMax ==
  st_pc = "done" =>
    IF Timestamps(st_files) = {}
      THEN st_stats.date_range = [start |-> None, end |-> None]
      ELSE /\ st_stats.date_range.start \in Timestamps(st_files)
           /\ st_stats.date_range.end \in Timestamps(st_files)
           /\ \A t \in Timestamps(st_files) :
                /\ ~StrLess(t, st_stats.date_range.start)
                /\ ~StrLess(st_stats.date_range.end, t)

\* C12 witness: three snapshots with three timestamps have been aggregated, the
\* smallest timestamp read second and the largest read first.
C12_Witness ==
  /\ st_pc = "done"
  /\ Len(st_files) = 3
  /\ Cardinality(Timestamps(st_files)) = 3
  /\ st_stats.date_range.start = st_files[2].timestamp
  /\ st_stats.date_range.end = st_files[1].timestamp

\* The sum of file_count over the competitors in C.
RECURSIVE FileCountSum(_, _)
FileCountSum(competitors, C) ==
  IF C = {} THEN 0
  ELSE competitors[CHOOSE c \in C : TRUE].file_count
         + FileCountSum(competitors, C \ {CHOOSE c \in C : TRUE})

\* C18: total_files is the sum of file_count over the competitors of the result:
\* every file counted in the total is attributed to one competitor entry.
C18_TotalFilesIsSum ==
  st_pc = "done" =>
    st_stats.total_files =
      FileCountSum(st_stats.competitors, DOMAIN st_stats.competitors)

(***************************************************************************)
(* Extraction: one routine called on one container                         *)
(***************************************************************************)

ExtractInit ==
  /\ DedupeIdle
  /\ ScrapeIdle
  /\ StatsIdle
  /\ ex_element \in {Container(kids) : kids \in SeqsUpTo(ElemSamples, MaxElems)}
  /\ ex_routine = None
  /\ ex_base = None
  /\ ex_link = 0
  /\ ex_result = NoneDict
  /\ ex_pc = "input"

Extracted(routine, base, link, result) ==
  /\ ex_routine' = routine
  /\ ex_base' = base
  /\ ex_link' = link
  /\ ex_result' = result
  /\ ex_pc' = "done"
  /\ UNCHANGED <<ex_element, dedupeVars, statsVars, scrapeVars>>

RunExtractArticleData ==
  /\ ex_pc = "input"
  /\ \E competitor \in CompetitorSamples :
       Extracted("_extract_article_data", competitor, 0,
                 ExtractArticleData(ex_element, competitor))

RunExtractGoogleArticle ==
  /\ ex_pc = "input"
  /\ Extracted("_extract_google_article", GoogleAIBlogUrl, 0,
               ExtractGoogleArticle(ex_element, GoogleAIBlogUrl))

RunExtractDeepmindArticle ==
  /\ ex_pc = "input"
  /\ Extracted("_extract_deepmind_article", DeepmindUrl, 0,
               ExtractDeepmindArticle(ex_element, DeepmindUrl))

RunExtractFromLink ==
  /\ ex_pc = "input"
  /\ \E k \in 1..Len(ex_element.kids) :
       /\ ex_element.kids[k].tag = "a"
       /\ Extracted("_extract_from_link", GoogleAIBlogUrl, k,
                    ExtractFromLink(ex_element.kids[k], ex_element, GoogleAIBlogUrl))

ExtractNext ==
  \/ RunExtractArticleData
  \/ RunExtractGoogleArticle
  \/ RunExtractDeepmindArticle
  \/ RunExtractFromLink

SpecExtract == ExtractInit /\ [][ExtractNext]_vars

\* The content text the routine of the state cuts its preview from.
ContentText ==
  CASE ex_routine = "_extract_article_data"     -> ArticleContent(ex_element, ex_base)
    [] ex_routine = "_extract_google_article"   -> GoogleContent(ex_element)
    [] ex_routine = "_extract_deepmind_article" -> DeepmindContent(ex_element)
    [] ex_routine = "_extract_from_link"        -> LinkContent(ex_element)

\* The title texts the routine of the state finds on the container.
TitleCandidates ==
  CASE ex_routine = "_extract_google_article" ->
         {GetText(SelectOne(ex_element, GoogleTitleSelectors[k])) :
            k \in {j \in 1..Len(GoogleTitleSelectors) :
                     SelectOne(ex_element, GoogleTitleSelectors[j]) # NoElem}}
    [] ex_routine = "_extract_deepmind_article" ->
         {GetText(e) : e \in {SelectOne(ex_element,
            {Tag("h2"), Tag("h3"), Alt("a", None, None, None, "/blog/")})} \ {NoElem}}
    [] ex_routine = "_extract_from_link" -> {GetText(ex_element.kids[ex_link])}
    [] OTHER -> {}

\* The href of the element the routine of the state takes the link from, or None.
HrefFound ==
  LET link_elem ==
        CASE ex_routine = "_extract_article_data" -> SelectOne(ex_element, {Tag("a")})
          [] ex_routine = "_extract_from_link"    -> ex_element.kids[ex_link]
          [] OTHER -> SelectOne(ex_element, {Alt("a", None, None, "href", None)})
  IN IF link_elem = NoElem THEN None ELSE link_elem.href

BaseUrl == IF ex_routine = "_extract_article_data" THEN ex_base.url ELSE ex_base

\* C5: a container all of whose title texts are at most ten characters long gives
\* no record, in _extract_google_article, _extract_deepmind_article and
\* _extract_from_link.
C5_ShortTitleNoRecord ==
  (/\ ex_pc = "done"
   /\ ex_routine \in {"_extract_google_article", "_extract_deepmind_article",
                      "_extract_from_link"}
   /\ \A t \in TitleCandidates : Len(t) <= TitleMinLen)
    => ex_result = NoneDict

\* C7: the link of every record is None or an absolute URL, and a relative href is
\* resolved against the base URL of the page.
C7_LinkAbsentOrAbsolute ==
  (ex_pc = "done" /\ ex_result # NoneDict) =>
    /\ ex_result.link = None \/ ValidateUrl(ex_result.link)
    /\ (HrefFound # None /\ UrlScheme(HrefFound) = "")
         => ex_result.link = UrlJoin(BaseUrl, HrefFound)

\* C8: the content_preview of every record is None (no content text) or exactly
\* the first min(n, 500) characters of the n-character content text, nothing
\* appended.
C8_ExcerptCapped ==
  (ex_pc = "done" /\ ex_result # NoneDict) =>
    IF ContentText \in {None, ""}
      THEN ex_result.content_preview = None
      ELSE /\ ex_result.content_preview =
                SubSeq(ContentText, 1, Min(Len(ContentText), ExcerptCap))
           /\ Len(ex_result.content_preview) = Min(Len(ContentText), ExcerptCap)

\* C8 witness: a record has been extracted from a container whose content text is
\* 600 characters long, and its preview is 500 characters long.
C8_Witness ==
  /\ ex_pc = "done"
  /\ ex_result # NoneDict
  /\ Len(ContentText) = 600
  /\ Len(ex_result.content_preview) = 500

\* The first element a list of selectors finds on the element, or NoElem.
RECURSIVE FirstFound(_, _, _)
FirstFound(element, selectors, k) ==
  IF k > Len(selectors) THEN NoElem
  ELSE IF SelectOne(element, selectors[k]) # NoElem THEN SelectOne(element, selectors[k])
  ELSE FirstFound(element, selectors, k + 1)

\* The date element the routine of the state matches on the container, or NoElem.
DateElemFound ==
  CASE ex_routine = "_extract_article_data" ->
         SelectOne(ex_element, GetOr(ex_base, "date_selector", Selector({Tag("time")})).alts)
    [] ex_routine = "_extract_google_article" ->
         FirstFound(ex_element, GoogleDateSelectors, 1)
    [] OTHER -> SelectOne(ex_element, {Tag("time"), ClassSub("date")})

\* C11: in every extraction routine, when the matched date element carries both a
\* datetime attribute and visible text, the date of the record is the value of the
\* datetime attribute.
C11_DatetimeWins ==
  (/\ ex_pc = "done"
   /\ ex_result # NoneDict
   /\ DateElemFound # NoElem
   /\ DateElemFound.datetime # None
   /\ GetText(DateElemFound) # "")
    => ex_result.date = DateElemFound.datetime

(***************************************************************************)
(* Scraping: scrape_all over the configured competitors, and                *)
(* scrape_all_google_sources                                                 *)
(***************************************************************************)

ScrapeInit ==
  /\ DedupeIdle
  /\ StatsIdle
  /\ ExtractIdle
  /\ \/ /\ sc_prog = "scrape_all"
        /\ sc_config_file \in ConfigFiles
        /\ sc_pc = "init"
     \/ /\ sc_prog = "scrape_all_google_sources"
        /\ sc_config_file = NoneDict
        /\ sc_pc = "google_ai_blog"
  /\ sc_config = EmptyDict
  /\ sc_page = <<>>
  /\ sc_i = 1
  /\ sc_retry = NewRetry
  /\ sc_attempts = 0
  /\ sc_forcelist_only = TRUE
  /\ sc_result = NoneDict
  /\ sc_results = <<>>
  /\ sc_files = <<>>
  /\ sc_clock = 0
  /\ sc_error = None

\* The constructor has its configuration, or the exception leaves it.
Loaded(config) ==
  IF config.raised = None
    THEN /\ sc_config' = config.value
         /\ sc_pc' = "loop"
         /\ UNCHANGED sc_error
    ELSE /\ sc_pc' = "raised"
         /\ sc_error' = config.raised
         /\ UNCHANGED sc_config

\* CompetitorScraper.__init__: the configuration is loaded from its file.
Construct ==
  /\ sc_pc = "init"
  /\ Loaded(LoadConfig(sc_config_file))
  /\ UNCHANGED <<sc_prog, sc_config_file, sc_page, sc_i, sc_retry, sc_attempts,
                 sc_forcelist_only, sc_result, sc_results, sc_files, sc_clock,
                 dedupeVars, statsVars, extractVars>>

Competitors == GetOr(sc_config, "competitors", <<>>)

\* scrape_all takes the next competitor and scrape_website calls session.get.
StartFetch ==
  /\ sc_pc = "loop"
  /\ sc_i <= Len(Competitors)
  /\ sc_retry' = NewRetry
  /\ sc_attempts' = 0
  /\ sc_forcelist_only' = TRUE
  /\ sc_result' = NoneDict
  /\ sc_page' = <<>>
  /\ sc_pc' = "get"
  /\ UNCHANGED <<sc_prog, sc_config_file, sc_config, sc_i, sc_results, sc_files, sc_clock, sc_error,
                 dedupeVars, statsVars, extractVars>>

\* scrape_website has its snapshot: scrape_all appends it and goes on to save.
Scraped(result) ==
  /\ sc_result' = result
  /\ sc_results' = Append(sc_results, result)
  /\ sc_pc' = "save"
  /\ UNCHANGED <<sc_retry, sc_error>>

\* scrape_website returns its snapshot, or the exception leaves scrape_all.
ScrapedOrRaised(parsed) ==
  IF parsed.raised = None THEN Scraped(parsed.value)
  ELSE /\ sc_pc' = "raised"
       /\ sc_error' = parsed.raised
       /\ UNCHANGED <<sc_retry, sc_result, sc_results>>

\* What follows an attempt: another attempt, or the rest of scrape_website.
AfterAttempt(answer, outcome) ==
  CASE outcome = "retry" ->
         /\ sc_retry' = Increment(sc_retry, answer)
         /\ UNCHANGED <<sc_pc, sc_page, sc_result, sc_results, sc_error>>
    [] outcome = "ok" ->
         \E page \in SitePages :
           /\ sc_page' = page
           /\ ScrapedOrRaised(ParseAndExtract(Competitors[sc_i], page, sc_clock))
    [] OTHER ->
         /\ Scraped(ErrorSnapshot(Competitors[sc_i], sc_clock, outcome))
         /\ UNCHANGED sc_page

\* One HTTP attempt of session.get and what follows it: another attempt, or the
\* rest of scrape_website up to the save in scrape_all.
Attempt ==
  /\ sc_pc = "get"
  /\ \E answer \in Answers :
       /\ sc_attempts' = sc_attempts + 1
       /\ sc_forcelist_only' = (sc_forcelist_only /\ answer.status \in StatusForcelist)
       /\ AfterAttempt(answer, AttemptOutcome(sc_retry, answer))
  /\ UNCHANGED <<sc_prog, sc_config_file, sc_config, sc_i, sc_files, sc_clock,
                 dedupeVars, statsVars, extractVars>>

\* The file is written, or the exception leaves scrape_all.
SavedOrRaised(saved) ==
  IF saved.raised = None
    THEN /\ sc_files' = Append(sc_files, saved.value)
         /\ sc_pc' = "sleep"
         /\ UNCHANGED sc_error
    ELSE /\ sc_pc' = "raised"
         /\ sc_error' = saved.raised
         /\ UNCHANGED sc_files

\* _save_result writes the snapshot to its file, or raises.
Save ==
  /\ sc_pc = "save"
  /\ \E disk_ok \in BOOLEAN : SavedOrRaised(SaveResult(sc_result, sc_clock, disk_ok))
  /\ UNCHANGED <<sc_prog, sc_config_file, sc_config, sc_page, sc_i, sc_retry,
                 sc_attempts, sc_forcelist_only,
                 sc_result, sc_results, sc_clock, dedupeVars, statsVars, extractVars>>

\* The loop going to the next competitor with no wait at all.
LoopWithoutSleep ==
  /\ sc_pc = "sleep"
  /\ sc_i' = sc_i + 1
  /\ sc_pc' = "loop"
  /\ UNCHANGED <<sc_prog, sc_config_file, sc_config, sc_page, sc_retry, sc_attempts,
                 sc_forcelist_only, sc_result, sc_results, sc_files, sc_clock, sc_error,
                 dedupeVars, statsVars, extractVars>>

\* time.sleep(rate_limit_delay), and the loop goes to the next competitor.
Sleep ==
  /\ sc_pc = "sleep"
  /\ sc_clock' = sc_clock + GetOr(sc_config, "rate_limit_delay", RateLimitDelay)
  /\ sc_i' = sc_i + 1
  /\ sc_pc' = "loop"
  /\ UNCHANGED <<sc_prog, sc_config_file, sc_config, sc_page, sc_retry, sc_attempts,
                 sc_forcelist_only,
                 sc_result, sc_results, sc_files, sc_error,
                 dedupeVars, statsVars, extractVars>>

\* The loop is over: scrape_all returns the results.
ReturnResults ==
  /\ sc_pc = "loop"
  /\ sc_i > Len(Competitors)
  /\ sc_pc' = "returned"
  /\ UNCHANGED <<sc_prog, sc_config_file, sc_config, sc_page, sc_i, sc_retry,
                 sc_attempts, sc_forcelist_only,
                 sc_result, sc_results, sc_files, sc_clock, sc_error,
                 dedupeVars, statsVars, extractVars>>

\* A Google scraper has its snapshot and scrape_all_google_sources appends it.
GoogleScraped(result, page, pc) ==
  /\ sc_attempts' = 1
  /\ sc_page' = page
  /\ sc_result' = result
  /\ sc_results' = Append(sc_results, result)
  /\ sc_pc' = pc
  /\ UNCHANGED <<sc_prog, sc_config_file, sc_config, sc_i, sc_retry,
                 sc_forcelist_only, sc_files,
                 sc_clock, sc_error, dedupeVars, statsVars, extractVars>>

ScrapeGoogleAIBlog ==
  /\ sc_pc = "google_ai_blog"
  /\ \/ \E page \in Pages :
          GoogleScraped(GoogleAIBlogSnapshot(page, sc_clock), page, "deepmind")
     \/ \E error \in SingleAttemptErrors :
          GoogleScraped(GoogleErrorSnapshot("Google AI Blog", GoogleAIBlogUrl, sc_clock, error),
                        <<>>, "deepmind")

\* scrape_deepmind, after which scrape_all_google_sources returns the results.
ScrapeDeepmind ==
  /\ sc_pc = "deepmind"
  /\ \/ \E page \in Pages :
          GoogleScraped(DeepmindSnapshot(page, sc_clock), page, "returned")
     \/ \E error \in SingleAttemptErrors :
          GoogleScraped(GoogleErrorSnapshot("DeepMind", DeepmindUrl, sc_clock, error),
                        <<>>, "returned")

ScrapeNext ==
  \/ Construct
  \/ StartFetch
  \/ Attempt
  \/ Save
  \/ Sleep
  \/ ReturnResults
  \/ ScrapeGoogleAIBlog
  \/ ScrapeDeepmind

SpecScrape == ScrapeInit /\ [][ScrapeNext]_vars

\* Whether the fetch for the competitor under way failed: scrape_website returned
\* the snapshot of its except clause.
FetchFailed == HasKey(sc_result, "error")

\* C3: for a competitor whose fetch fails, scrape_all does not raise, saves and
\* returns a snapshot with the error set and no articles, and goes on: a run that
\* returns has one snapshot for every configured competitor.
C3_FailedFetchYieldsSnapshot ==
  sc_prog = "scrape_all" =>
    /\ (sc_pc = "raised" => ~FetchFailed)
    /\ (sc_pc = "sleep" /\ FetchFailed) =>
         /\ sc_result.articles = <<>>
         /\ sc_results[Len(sc_results)] = sc_result
         /\ sc_files[Len(sc_files)].data = sc_result
    /\ (sc_pc = "returned" => Len(sc_results) = Len(Competitors))

\* No two records of the list have the same title.
TitlesDistinct(articles) ==
  \A i, j \in 1..Len(articles) : i # j => articles[i].title # articles[j].title

\* C6: in every snapshot a scrape operation produced (scrape_website,
\* scrape_google_ai_blog, scrape_deepmind), no two records of the articles array
\* have the same title.
C6_SnapshotsDeduplicated ==
  \A k \in 1..Len(sc_results) : TitlesDistinct(sc_results[k].articles)

\* C9: with a configuration file that is absent or holds JSON, whatever goes wrong
\* for a competitor while fetching, parsing, extracting or saving, no exception
\* leaves scrape_all.
C9_ScrapeAllNeverRaises ==
  (sc_prog = "scrape_all" /\ sc_config_file # NotJson) =>
    (sc_pc # "raised" /\ sc_error = None)

\* The fetch for the competitor under way is over.
FetchOver == sc_pc \in {"save", "sleep"}

\* C10 as stated: while the server answers every attempt with a status of the
\* forcelist, a fetch makes at most three HTTP attempts, and then gives the error
\* snapshot.
C10_ThreeAttempts ==
  (sc_prog = "scrape_all" /\ sc_forcelist_only) =>
    /\ sc_attempts <= 3
    /\ FetchOver => (FetchFailed /\ sc_result.articles = <<>>)

\* C10: no fetch makes more than four HTTP attempts, the first and the three
\* retries of the policy; when the server answers every attempt with a status of
\* the forcelist (500, 502, 504), the fetch makes exactly four attempts and then
\* gives the snapshot with the error set and no articles.
C10_FourAttempts ==
  sc_prog = "scrape_all" =>
    /\ sc_attempts <= RetryTotal + 1
    /\ (FetchOver /\ sc_forcelist_only) =>
         /\ sc_attempts = RetryTotal + 1
         /\ sc_result = ErrorSnapshot(Competitors[sc_i], sc_clock, "RetryError")

\* C10 witness: a fetch is over whose four attempts were all answered with a
\* status of the forcelist, and its snapshot carries the error.
C10_Witness ==
  /\ sc_prog = "scrape_all"
  /\ FetchOver
  /\ sc_forcelist_only
  /\ sc_attempts = 4
  /\ FetchFailed
  /\ sc_result.articles = <<>>

\* C16: when the configuration file does not exist, the constructor of
\* CompetitorScraper does not raise, the configuration holds the one built-in
\* competitor and nothing else in its list, and scrape_all fetches that competitor
\* and no other.
C16_MissingConfigFallsBack ==
  (sc_prog = "scrape_all" /\ sc_config_file = MissingFile /\ sc_pc # "init") =>
    /\ sc_error # "JSONDecodeError"
    /\ sc_config = DefaultConfig
    /\ Competitors = <<DefaultCompetitor>>
    /\ sc_i <= 2
    /\ (sc_pc \in {"get", "save", "sleep"} => Competitors[sc_i].name = "OpenAI")
    /\ \A k \in 1..Len(sc_results) : sc_results[k].competitor = "OpenAI"
    /\ (sc_pc = "returned" => Len(sc_results) = 1)

\* C16 witness: a run built without a configuration file has returned the one
\* snapshot of the built-in competitor.
C16_Witness ==
  /\ sc_prog = "scrape_all"
  /\ sc_config_file = MissingFile
  /\ sc_pc = "returned"
  /\ Len(sc_results) = 1
  /\ sc_results[1].competitor = "OpenAI"
  /\ sc_results[1].url = "https://openai.com/blog"

\* C17: every snapshot a scrape operation produced, on its success path or on its
\* error path, has an article_count field, and the field equals the number of
\* entries of the articles array of the snapshot.
C17_ArticleCountAgrees ==
  \A k \in 1..Len(sc_results) :
    /\ HasKey(sc_results[k], "article_count")
    /\ sc_results[k].article_count = Len(sc_results[k].articles)

\* The paths of the files written so far.
PathsWritten == {sc_files[k].path : k \in 1..Len(sc_files)}

\* C13: during a run of scrape_all, whether it returns or is interrupted, no
\* snapshot file is written twice, so that no snapshot on disk is replaced by a
\* later one; after a complete run over N competitors there are N distinct files.
C13_FilesNeverOverwritten ==
  sc_prog = "scrape_all" =>
    /\ \A j, k \in 1..Len(sc_files) : j # k => sc_files[j].path # sc_files[k].path
    /\ (sc_pc = "returned" => Cardinality(PathsWritten) = Len(Competitors))

\* The wait between two competitors that the configuration asks for.
ConfiguredDelay == GetOr(sc_config, "rate_limit_delay", RateLimitDelay)

\* C14: in scrape_all, while the fetch for a competitor after the first is under
\* way, the snapshot of the competitor before it, with or without an error, is
\* the last file written, and the fetch began no earlier than the configured
\* delay after that file was written.
C14_SequentialWithDelay ==
  (sc_prog = "scrape_all" /\ sc_pc = "get" /\ sc_i > 1) =>
    /\ Len(sc_results) = sc_i - 1
    /\ Len(sc_files) = sc_i - 1
    /\ sc_files[sc_i - 1].data = sc_results[sc_i - 1]
    /\ sc_results[sc_i - 1].competitor = Get(Competitors[sc_i - 1], "name")
    /\ sc_clock >= sc_files[sc_i - 1].time + ConfiguredDelay

\* C14 witness: the fetch for the second competitor is under way, two seconds
\* after the snapshot of a failed fetch for the first was saved.
C14_Witness ==
  /\ sc_prog = "scrape_all"
  /\ sc_pc = "get"
  /\ sc_i = 2
  /\ HasKey(sc_results[1], "error")
  /\ sc_files[1].data = sc_results[1]
  /\ ConfiguredDelay = 2
  /\ sc_clock = sc_files[1].time + 2

\* The page without the top-level elements for which the extraction routine of
\* the run raises.
RECURSIVE WithoutFailing(_, _)
WithoutFailing(page, k) ==
  IF k > Len(page) THEN <<>>
  ELSE (IF (IF sc_prog = "scrape_all" THEN ArticleDataRaises(page[k], Competitors[sc_i])
                                      ELSE GoogleArticleRaises(page[k]))
          THEN <<>> ELSE <<page[k]>>) \o WithoutFailing(page, k + 1)

\* The snapshot the scrape operation last run gives for the page.
SnapshotOf(page) ==
  CASE sc_prog = "scrape_all" -> ParseAndExtract(Competitors[sc_i], page, sc_clock).value
    [] sc_pc = "deepmind"     -> GoogleAIBlogSnapshot(page, sc_clock)
    [] OTHER                  -> DeepmindSnapshot(page, sc_clock)

\* A scrape operation has returned the snapshot of a page it received.
PageScraped ==
  /\ \/ sc_prog = "scrape_all" /\ FetchOver
     \/ sc_prog = "scrape_all_google_sources" /\ sc_pc \in {"deepmind", "returned"}
  /\ ~HasKey(sc_result, "error")

====
